---- MODULE Spec2Model ----
(***************************************************************************)
(* webhook-relay: the Collector (collector/routes.py), the two queue       *)
(* clients (common/queue.py) and the Forwarder (forwarder/client.py,       *)
(* forwarder/app.py) as one state machine.                                 *)
(*                                                                         *)
(* The queue backend (Pub/Sub, SQS) and the downstream HTTP target are     *)
(* external services: what they hold and what they answer is input.        *)
(***************************************************************************)
EXTENDS Integers, Sequences, FiniteSets, TLC

\* ------------------------------------------------------------------ bounds
MaxRetryAttempts == 4
MaxQueue == 2
MaxDeliveries == 2
MaxRequests == 2
MaxAttempts == 2
MaxSetups == 2

\* Python's None where an Optional[str] is expected, and where an
\* Optional[QueueMessage] is expected.
None == "<None>"
NoMessage == [kind |-> "None"]

\* `if value:` on an Optional[str]
Truthy(s) == s # None /\ s # ""

\* ------------------------------------------------------------ data model
\* A Python datetime object, and the ISO-8601 string JSON carries for it.
Datetime(t) == [kind |-> "datetime", t |-> t]
IsoString(t) == [kind |-> "str", t |-> t]

\* str(uuid.uuid4()) of the n-th call, and the MessageId SQS answers a
\* SendMessage call with.
Uuid(n) == "uuid-" \o ToString(n)
SqsMessageId(n) == "sqs-message-id-" \o ToString(n)

\* models.WebhookMetadata, WebhookPayload, QueueMessage as Python objects
WebhookMetadata(source, t, signature, headers) ==
    [source |-> source, received_at |-> Datetime(t),
     signature |-> signature, headers |-> headers]

WebhookPayload(metadata, content) == [metadata |-> metadata, content |-> content]

QueueMessage(id, payload, t) ==
    [id |-> id, payload |-> payload, created_at |-> Datetime(t), attempts |-> 0]

\* ---------------------------------------------------------- wire format
TypeError == [kind |-> "TypeError"]
JSONDecodeError == [kind |-> "JSONDecodeError"]
ValidationError == [kind |-> "ValidationError"]

\* BaseModel.model_dump() in its default (python) mode: nested models become
\* dicts, every field value is kept as the Python object it is.
ModelDump(m) ==
    [id |-> m.id,
     payload |-> [metadata |-> [source |-> m.payload.metadata.source,
                                received_at |-> m.payload.metadata.received_at,
                                signature |-> m.payload.metadata.signature,
                                headers |-> m.payload.metadata.headers],
                  content |-> m.payload.content],
     created_at |-> m.created_at,
     attempts |-> m.attempts]

\* json.dumps(d): str, int, None, dict serialize; a datetime object raises
\* TypeError ("Object of type datetime is not JSON serializable").
JsonDumps(d) ==
    IF d.created_at.kind = "datetime" \/ d.payload.metadata.received_at.kind = "datetime"
    THEN TypeError
    ELSE [kind |-> "json", value |-> d]

\* json.loads(text)
JsonLoads(text) == IF text.kind = "json" THEN text.value ELSE JSONDecodeError

EnvelopeFields == {"id", "payload", "created_at", "attempts"}

\* QueueMessage.model_validate(data): required fields present, ISO strings
\* parsed into datetime objects.
ModelValidate(data) ==
    IF ~(DOMAIN data = EnvelopeFields) THEN ValidationError
    ELSE [id |-> data.id,
          payload |-> [metadata |-> [source |-> data.payload.metadata.source,
                                     received_at |-> Datetime(data.payload.metadata.received_at.t),
                                     signature |-> data.payload.metadata.signature,
                                     headers |-> data.payload.metadata.headers],
                       content |-> data.payload.content],
          created_at |-> Datetime(data.created_at.t),
          attempts |-> data.attempts]

\* An envelope as the wire format of spec section 6 carries it.
WireEnvelope(id, source, signature, headers, content) ==
    [kind |-> "json",
     value |-> [id |-> id,
                payload |-> [metadata |-> [source |-> source,
                                           received_at |-> IsoString(0),
                                           signature |-> signature,
                                           headers |-> headers],
                             content |-> content],
                created_at |-> IsoString(0),
                attempts |-> 0]]

\* ----------------------------------------------------------- HTTP headers
\* A dict of headers is a function from header names to values.
EmptyDict == [n \in {} |-> ""]

\* str.lower() on the header names the model uses
Lower(name) ==
    CASE name = "Authorization" -> "authorization"
      [] name = "X-Webhook-Relay" -> "x-webhook-relay"
      [] name = "X-Webhook-Relay-Source" -> "x-webhook-relay-source"
      [] name = "X-Webhook-Relay-ID" -> "x-webhook-relay-id"
      [] name = "X-Webhook-Relay-Signature" -> "x-webhook-relay-signature"
      [] name = "X-Hub-Signature-256" -> "x-hub-signature-256"
      [] name = "X-Gitlab-Token" -> "x-gitlab-token"
      [] name = "X-GitHub-Event" -> "x-github-event"
      [] OTHER -> name

\* ForwarderConfig.headers: the two of the test configuration, and one that
\* has the name of a header the Forwarder sets itself
ConfiguredHeaders ==
    [n \in {"X-Webhook-Relay", "Authorization", "X-Webhook-Relay-Source"} |->
        CASE n = "Authorization" -> "Bearer test-token"
          [] n = "X-Webhook-Relay-Source" -> "configured-source"
          [] OTHER -> "true"]

\* ------------------------------------------------- the queue the backend holds
\* What a producer may have put on the topic / queue: envelopes in the wire
\* format, a body that is no JSON, a JSON body that is no envelope. The
\* envelope headers are a snapshot of the request headers, as receive_webhook
\* takes it: lower-cased names, the signature header among them.
SeedBody(i) ==
    CASE i = 1 -> WireEnvelope("uuid-101", "github", "sha256=hmac(test-secret,{a:1})",
                               [n \in {"x-github-event", "x-hub-signature-256",
                                       "x-webhook-relay-id"} |->
                                   CASE n = "x-github-event" -> "push"
                                     [] n = "x-webhook-relay-id" -> "uuid-from-sender"
                                     [] OTHER -> "sha256=hmac(test-secret,{a:1})"],
                               [type |-> "object", repr |-> "{a:1}"])
      [] i = 2 -> WireEnvelope("uuid-102", "custom", None,
                               [n \in {"authorization"} |-> "Bearer inbound"],
                               [type |-> "object", repr |-> "{b:2}"])
      [] i = 3 -> [kind |-> "text"]
      [] OTHER -> [kind |-> "json", value |-> [id |-> "uuid-104"]]

SeedSlots == 1..4

VARIABLES
    config,                 \* the ForwarderConfig / queue selection the process runs with
    target,                 \* the downstream target: the outcomes a POST to it can end in
    queue,                  \* backend: slot -> [body, acked, deliveries]
    ackRequests,            \* acknowledge / delete requests the backend has received
    current_message,        \* queue client attribute _current_message
    current_receipt_handle, \* AWSSQSClient._current_receipt_handle
    shutdown,               \* _shutdown_event.is_set()
    pc,                     \* where WebhookForwarder.run is
    message,                \* the QueueMessage being processed
    attempt,                \* forward_webhook: loop variable
    backoff,                \* forward_webhook: backoff
    posts,                  \* outcomes of the POSTs made for `message`
    sleeps,                 \* forward_webhook: durations of the backoff sleeps for `message`
    deleteCalls,            \* the delete_message calls made for `message`
    result,                 \* what process_message returned for `message`
    lastReceive,            \* the last receive_message call: what the backend answered,
                            \* what the call did, and how long run() slept after it
    receipts,               \* the messages receive_message has returned so far
    processCalls,           \* handle -> number of process_message calls for that receipt
    sleepsAfterShutdown     \* asyncio.sleep calls that returned with the shutdown flag set

\* What the model records about the calls run() makes
hvars == <<lastReceive, receipts, processCalls, sleepsAfterShutdown>>

fvars == <<config, target, queue, ackRequests, current_message, current_receipt_handle,
           shutdown, pc, message, attempt, backoff, posts, sleeps, deleteCalls,
           result, hvars>>

VARIABLES
    collector_queue_type,   \* CollectorConfig.queue_type: the client send_message runs on
    handled,                \* number of requests the Collector has answered
    request,                \* the request answered last
    response,               \* its response: [status, message_id]
    sendLog,                \* the send_message calls made for it
    uuidCount,              \* uuid.uuid4() calls so far
    publishCount,           \* publishes the backend has accepted so far
    messageIds,             \* the message_id of every 202 response so far
    original,               \* a QueueMessage about to be serialized
    reconstructed,          \* what parsing its serialization gave
    inflight                \* the receive_webhook coroutines of the event loop:
                            \* connection -> [pc, req, response, sends]

cvars == <<collector_queue_type, handled, request, response, sendLog, uuidCount,
           publishCount, messageIds, original, reconstructed, inflight>>

VARIABLES
    app_config,             \* forwarder/app.py global _app_config
    queue_client,           \* forwarder/app.py global _queue_client
    completed,              \* the config and client of the last setup_app call that
                            \* returned, if any
    setups,                 \* number of setup_app calls so far
    accessed                \* what the last get_app_config() and get_queue_client()
                            \* calls returned or raised

avars == <<app_config, queue_client, completed, setups, accessed>>

vars == <<fvars, cvars, avars>>

\* ForwarderConfig.retry_delay: one second as in the tests, and the default
RetryDelays == {1, 5}

QueueTypes == {"gcp_pubsub", "aws_sqs"}

NoRequest == [kind |-> "None"]
NoResponse == [kind |-> "None"]

Configs ==
    [queue_type : QueueTypes,
     subscription_id : BOOLEAN,          \* GCPPubSubConfig.subscription_id is set
     retry_attempts : 0..MaxRetryAttempts,
     retry_delay : RetryDelays]

\* What one POST ends in: the HTTP status the target answers with, or
\* TransportError when session.post raises.
TransportError == 0
Outcomes == {100, 200, 399, 400, 500, TransportError}

\* The downstream targets the model runs against: each is the set of outcomes
\* its POSTs can end in.
Targets ==
    {{200}, {500}, {100, 500}, {399, 400}, {400, TransportError}, {200, TransportError}}

\* Mutant of Succeeded: only a 2xx status is a success
SucceededOnly2xx(outcome) == outcome \in 200..299

\* Mutant of Succeeded: the comparison off by one (`<= 400`)
SucceededAt400(outcome) == outcome # TransportError /\ outcome <= 400

\* forward_webhook: `response.status < 400`, reached only without an exception
Succeeded(outcome) == outcome # TransportError /\ outcome < 400

\* Mutant of InRange: one iteration too many
InRangeOneMore(a) == a <= config.retry_attempts

\* forward_webhook: `for attempt in range(self.retry_attempts)`
InRange(a) == a < config.retry_attempts

\* forward_webhook: `if attempt < self.retry_attempts - 1`
ShouldRetry(a) == a < config.retry_attempts - 1

\* Mutant of NextBackoff: linear instead of exponential growth
NextBackoffLinear(b) == b + config.retry_delay

\* forward_webhook: `backoff *= 2`
NextBackoff(b) == b * 2

\* Mutant of DeleteArgument: the handle instead of the id
DeleteArgumentHandle(msg) == msg.handle

\* process_message: the argument of `self.queue_client.delete_message(message.id)`
DeleteArgument(msg) == msg.id

\* The connections the Collector serves at the same time
Connections == 1..MaxRequests

\* A connection on which no request has arrived
Idle == [pc |-> "idle", req |-> NoRequest, response |-> NoResponse, sends |-> <<>>]

\* The Forwarder process after setup_app, for any configuration and any
\* content of the queue.
ForwarderStart ==
    /\ config \in {c \in Configs : c.queue_type = "aws_sqs" => c.subscription_id}
    /\ target \in Targets
    /\ \E S \in SUBSET SeedSlots :
          /\ Cardinality(S) <= MaxQueue
          /\ queue = [i \in S |-> [body |-> SeedBody(i), acked |-> FALSE, deliveries |-> 0]]
    /\ ackRequests = {}
    /\ current_message = NoMessage
    /\ current_receipt_handle = None
    /\ shutdown = FALSE
    /\ pc = "poll"
    /\ message = NoMessage
    /\ attempt = 0
    /\ backoff = 0
    /\ posts = <<>>
    /\ sleeps = <<>>
    /\ deleteCalls = <<>>
    /\ result = "none"
    /\ lastReceive = [backend |-> "none", outcome |-> "none", slept |-> 0]
    /\ receipts = {}
    /\ processCalls = EmptyDict
    /\ sleepsAfterShutdown = 0

\* The Collector process after setup_app, before its first request.
CollectorStart ==
    /\ collector_queue_type \in QueueTypes
    /\ handled = 0
    /\ request = NoRequest
    /\ response = NoResponse
    /\ sendLog = <<>>
    /\ uuidCount = 0
    /\ publishCount = 0
    /\ messageIds = <<>>
    /\ original = NoMessage
    /\ reconstructed = NoMessage
    /\ inflight = [k \in Connections |-> Idle]

\* ------------------------------------------------------ queue clients
\* The ack_id (Pub/Sub) or ReceiptHandle (SQS) of the d-th delivery of slot i.
Handle(i, d) == "handle-" \o ToString(i) \o "-" \o ToString(d)

RECURSIVE SumDeliveries(_)
SumDeliveries(S) ==
    IF S = {} THEN 0
    ELSE LET i == CHOOSE j \in S : TRUE IN queue[i].deliveries + SumDeliveries(S \ {i})

\* Deliveries the backend has made so far (the model stops delivering at
\* MaxDeliveries).
Delivered == SumDeliveries(DOMAIN queue)

\* What one pull / ReceiveMessage call can answer: a transport failure, no
\* message, or one un-acknowledged message with a fresh handle.
BackendResponses ==
    {[kind |-> "error"], [kind |-> "empty"]}
    \cup {[kind |-> "message", slot |-> i, body |-> queue[i].body,
           handle |-> Handle(i, queue[i].deliveries + 1)] :
            i \in {j \in DOMAIN queue : ~queue[j].acked /\ Delivered < MaxDeliveries}}

\* GCPPubSubClient.receive_message / AWSSQSClient.receive_message, from the
\* backend's answer on: the value returned to the caller.
ReceiveMessage(resp) ==
    IF resp.kind # "message" THEN NoMessage
    ELSE LET data == JsonLoads(resp.body) IN
         IF data = JSONDecodeError THEN NoMessage
         ELSE LET qm == ModelValidate(data) IN
              IF qm = ValidationError THEN NoMessage
              ELSE [kind |-> "QueueMessage", id |-> qm.id, payload |-> qm.payload,
                    created_at |-> qm.created_at, attempts |-> qm.attempts + 1,
                    handle |-> resp.handle]

\* Mutant of Matches: the id is not compared
MatchesAny(msg, message_id) == msg # NoMessage

\* delete_message: the negation of `not message or message.id != message_id`
Matches(msg, message_id) == msg # NoMessage /\ msg.id = message_id

\* delete_message(message_id) of both clients: the handle of the acknowledge /
\* delete request it issues (None when it issues none), the value returned, and
\* whether it raised (GCPPubSubClient without a subscription).
\* ackFails: the backend call raises, which the method catches.
DeleteMessage(message_id, ackFails) ==
    IF config.queue_type = "gcp_pubsub" /\ ~config.subscription_id
    THEN [request |-> None, returned |-> FALSE, raised |-> TRUE]
    ELSE IF ~Matches(current_message, message_id)
    THEN [request |-> None, returned |-> FALSE, raised |-> FALSE]
    ELSE IF ~Truthy(current_message.handle)
    THEN [request |-> None, returned |-> FALSE, raised |-> FALSE]
    ELSE [request |-> current_message.handle, returned |-> ~ackFails, raised |-> FALSE]

\* ---------------------------------------------------------- the Forwarder
\* Mutant of DictSet: dict.setdefault(k, v), a key already there keeps its value
DictSetDefault(d, k, v) == [n \in DOMAIN d \cup {k} |-> IF n \in DOMAIN d THEN d[n] ELSE v]

\* d[k] = v
DictSet(d, k, v) == [n \in DOMAIN d \cup {k} |-> IF n = k THEN v ELSE d[n]]

\* Mutant of BuildBody: the whole envelope, not its content only
BuildBodyEnvelope(msg) == msg.id \o ":" \o msg.payload.content.repr

\* json.dumps(payload.content): the JSON text of the content
BuildBody(msg) == msg.payload.content.repr

\* Mutant of RelayId: the handle of the receipt instead of the envelope's id
RelayIdFromHandle(msg) == msg.handle

\* forward_webhook: `headers["X-Webhook-Relay-ID"] = message.id`
RelayId(msg) == msg.id

\* Mutant of SameName: the names compared as they are written
SameNameExact(key, h) == key = h

\* forward_webhook: `key.lower() not in [h.lower() for h in headers]`, for
\* one h
SameName(key, h) == Lower(key) = Lower(h)

\* forward_webhook: the outbound headers. The inbound names are pairwise
\* different case-insensitively (the Collector stores Starlette's lower-cased
\* names), so the order of the loop does not matter.
BuildHeaders(msg) ==
    LET configured == ConfiguredHeaders
        inbound == msg.payload.metadata.headers
        passed == {k \in DOMAIN inbound :
                      ~(\E h \in DOMAIN configured : SameName(k, h))}
        merged == [n \in DOMAIN configured \cup passed |->
                      IF n \in DOMAIN configured THEN configured[n] ELSE inbound[n]]
        withSource == DictSet(merged, "X-Webhook-Relay-Source", msg.payload.metadata.source)
        withId == DictSet(withSource, "X-Webhook-Relay-ID", RelayId(msg))
    IN IF Truthy(msg.payload.metadata.signature)
       THEN DictSet(withId, "X-Webhook-Relay-Signature", msg.payload.metadata.signature)
       ELSE withId

\* receive_message raised: only GCPPubSubClient does, without a subscription
ReceiveRaises == config.queue_type = "gcp_pubsub" /\ ~config.subscription_id

\* run(): `await asyncio.sleep(1)` after a receive that returned no message
PollInterval == 1

\* Mutant of ErrorInterval: the same interval as after an empty receive
ErrorIntervalAsPoll == PollInterval

\* run(): `await asyncio.sleep(5)` in the except branch of the loop
ErrorInterval == 5

\* Mutant of OnNone: a None is handled as a failed receive
OnNoneAsError == "error_sleep"

\* run(): where it goes when receive_message returned None, `else: await
\* asyncio.sleep(1)`
OnNone == "idle_sleep"

\* Mutant of CanPoll: the next receive_message does not wait for the backoff
\* sleep of the message in flight
CanPollDuringBackoff == pc \in {"poll", "backoff"}

\* run(): receive_message is called at the top of a loop iteration only, after
\* the awaited process_message of the iteration before has returned
CanPoll == pc = "poll"

\* asyncio.sleep(...) is not given the shutdown event: a sleep that is running
\* or starts while the flag is set runs to its end, and counts as one
SleptUnderShutdown == IF shutdown THEN 1 ELSE 0

\* Mutant of ShutdownChecked: a backoff sleep is given up when the flag is set
ShutdownCheckedInBackoff == pc \in {"poll", "backoff"}

\* Mutant of ShutdownChecked: run() never looks at the flag
ShutdownNeverChecked == FALSE

\* run(): `while not shutdown_event.is_set()` is evaluated at the top of a
\* loop iteration only
ShutdownChecked == pc = "poll"

\* dict.get(h, 0)
CountOf(d, h) == IF h \in DOMAIN d THEN d[h] ELSE 0

\* run(): the loop condition holds, receive_message is called, and its answer
\* is dispatched: a message goes to process_message, none to the idle sleep,
\* an exception to the error sleep.
PollReceive ==
    /\ CanPoll
    /\ ~shutdown
    /\ IF ReceiveRaises
       THEN /\ pc' = "error_sleep"
            /\ lastReceive' = [backend |-> "none", outcome |-> "raised", slept |-> 0]
            /\ UNCHANGED <<queue, current_receipt_handle, message, attempt, backoff,
                           posts, sleeps, deleteCalls, result, receipts, processCalls>>
       ELSE \E resp \in BackendResponses :
            LET m == ReceiveMessage(resp) IN
            /\ queue' = IF resp.kind = "message"
                        THEN [queue EXCEPT ![resp.slot].deliveries = @ + 1]
                        ELSE queue
            /\ current_receipt_handle' =
                  IF m # NoMessage /\ config.queue_type = "aws_sqs"
                  THEN resp.handle ELSE current_receipt_handle
            /\ lastReceive' = [backend |-> resp.kind,
                               outcome |-> IF m = NoMessage THEN "None" ELSE "message",
                               slept |-> 0]
            /\ IF m = NoMessage
               THEN /\ pc' = OnNone
                    /\ UNCHANGED <<message, attempt, backoff, posts, sleeps,
                                   deleteCalls, result, receipts, processCalls>>
               ELSE /\ pc' = "forward"
                    /\ message' = m
                    /\ attempt' = 0
                    /\ backoff' = config.retry_delay
                    /\ posts' = <<>>
                    /\ sleeps' = <<>>
                    /\ deleteCalls' = <<>>
                    /\ result' = "none"
                    /\ receipts' = receipts \cup
                          {[slot |-> resp.slot, k |-> queue[resp.slot].deliveries + 1,
                            id |-> m.id, attempts |-> m.attempts, handle |-> m.handle]}
                    /\ processCalls' = DictSet(processCalls, m.handle,
                                               CountOf(processCalls, m.handle) + 1)
    /\ UNCHANGED <<config, target, ackRequests, current_message, shutdown,
                   sleepsAfterShutdown>>
    /\ UNCHANGED cvars
    /\ UNCHANGED avars

\* run(): await asyncio.sleep(1) after an empty receive
IdleSleep ==
    /\ pc = "idle_sleep"
    /\ pc' = "poll"
    /\ lastReceive' = [lastReceive EXCEPT !.slept = PollInterval]
    /\ sleepsAfterShutdown' = sleepsAfterShutdown + SleptUnderShutdown
    /\ UNCHANGED <<receipts, processCalls>>
    /\ UNCHANGED <<config, target, queue, ackRequests, current_message, current_receipt_handle,
                   shutdown, message, attempt, backoff, posts, sleeps, deleteCalls,
                   result>>
    /\ UNCHANGED cvars
    /\ UNCHANGED avars

\* run(): await asyncio.sleep(5) after an exception
ErrorSleep ==
    /\ pc = "error_sleep"
    /\ pc' = "poll"
    /\ lastReceive' = [lastReceive EXCEPT !.slept = ErrorInterval]
    /\ sleepsAfterShutdown' = sleepsAfterShutdown + SleptUnderShutdown
    /\ UNCHANGED <<receipts, processCalls>>
    /\ UNCHANGED <<config, target, queue, ackRequests, current_message, current_receipt_handle,
                   shutdown, message, attempt, backoff, posts, sleeps, deleteCalls,
                   result>>
    /\ UNCHANGED cvars
    /\ UNCHANGED avars

\* forward_webhook: one iteration of the retry loop up to the retry decision:
\* the POST, and what its outcome leads to.
ForwardAttempt ==
    /\ pc = "forward"
    /\ InRange(attempt)
    /\ \E outcome \in target :
          /\ posts' = Append(posts, [outcome |-> outcome,
                                     headers |-> BuildHeaders(message),
                                     body |-> BuildBody(message)])
          /\ IF Succeeded(outcome)
             THEN /\ pc' = "delete"
                  /\ UNCHANGED attempt
             ELSE IF ShouldRetry(attempt)
             THEN /\ pc' = "backoff"
                  /\ UNCHANGED attempt
             ELSE /\ pc' = "forward"
                  /\ attempt' = attempt + 1
    /\ UNCHANGED <<config, target, queue, ackRequests, current_message, current_receipt_handle,
                   shutdown, message, backoff, sleeps, deleteCalls, result>>
    /\ UNCHANGED hvars
    /\ UNCHANGED cvars
    /\ UNCHANGED avars

\* forward_webhook: await asyncio.sleep(backoff); backoff *= 2; next iteration
BackoffSleep ==
    /\ pc = "backoff"
    /\ sleeps' = Append(sleeps, backoff)
    /\ backoff' = NextBackoff(backoff)
    /\ attempt' = attempt + 1
    /\ pc' = "forward"
    /\ UNCHANGED <<config, target, queue, ackRequests, current_message, current_receipt_handle,
                   shutdown, message, posts, deleteCalls, result>>
    /\ sleepsAfterShutdown' = sleepsAfterShutdown + SleptUnderShutdown
    /\ UNCHANGED <<lastReceive, receipts, processCalls>>
    /\ UNCHANGED cvars
    /\ UNCHANGED avars

\* forward_webhook: the loop is over, return False; process_message returns it.
ForwardExhausted ==
    /\ pc = "forward"
    /\ ~InRange(attempt)
    /\ result' = "false"
    /\ pc' = "poll"
    /\ UNCHANGED <<config, target, queue, ackRequests, current_message, current_receipt_handle,
                   shutdown, message, attempt, backoff, posts, sleeps, deleteCalls>>
    /\ UNCHANGED hvars
    /\ UNCHANGED cvars
    /\ UNCHANGED avars

\* The record of one delete_message(id) call that ended as d: the id, the
\* id of the client's _current_message at the call, the backend request made,
\* whether that request failed, the value returned, whether the call raised.
DeleteCall(id, d, ackFails) ==
    [id |-> id,
     checkedOut |-> IF current_message = NoMessage THEN None ELSE current_message.id,
     request |-> d.request,
     backendFailed |-> d.request # None /\ ackFails,
     returned |-> d.returned,
     raised |-> d.raised]

\* The backend after a delete_message call that ended as d: it has the
\* request, and the message of that handle is acknowledged if the request
\* did not fail.
BackendAfterDelete(d) ==
    /\ ackRequests' = IF d.request # None THEN ackRequests \cup {d.request}
                      ELSE ackRequests
    /\ queue' = IF d.returned
                THEN [i \in DOMAIN queue |->
                        IF Handle(i, queue[i].deliveries) = d.request
                        THEN [queue[i] EXCEPT !.acked = TRUE] ELSE queue[i]]
                ELSE queue

\* process_message from the delete_message(id) call on, the call ending as d:
\* it returns True (`return success`) unless the call raised, which the
\* `except Exception` turns into False.
AfterDelete(id, d, ackFails) ==
    /\ deleteCalls' = Append(deleteCalls, DeleteCall(id, d, ackFails))
    /\ BackendAfterDelete(d)
    /\ result' = IF d.raised THEN "false" ELSE "true"
    /\ pc' = "poll"
    /\ UNCHANGED <<config, target, current_message, current_receipt_handle, shutdown, message,
                   attempt, backoff, posts, sleeps>>
    /\ UNCHANGED hvars
    /\ UNCHANGED cvars
    /\ UNCHANGED avars

\* process_message after forward_webhook returned True: delete_message is
\* called with message.id; process_message returns success unless the call
\* raised.
ProcessDelete ==
    /\ pc = "delete"
    /\ \E ackFails \in BOOLEAN :
          AfterDelete(DeleteArgument(message),
                      DeleteMessage(DeleteArgument(message), ackFails), ackFails)

\* What a delete_message call of a QueueClient can end in, for a caller that
\* knows the abstract class only: True, False, or an exception.
DeleteOutcomes ==
    {[request |-> None, returned |-> TRUE, raised |-> FALSE],
     [request |-> None, returned |-> FALSE, raised |-> FALSE],
     [request |-> None, returned |-> FALSE, raised |-> TRUE]}

\* process_message after forward_webhook returned True, on any QueueClient
ProcessDeleteInterface ==
    /\ pc = "delete"
    /\ \E d \in DeleteOutcomes : AfterDelete(DeleteArgument(message), d, FALSE)

\* run(): the loop condition fails, run returns
Stop ==
    /\ ShutdownChecked
    /\ shutdown
    /\ pc' = "stopped"
    /\ UNCHANGED <<config, target, queue, ackRequests, current_message, current_receipt_handle,
                   shutdown, message, attempt, backoff, posts, sleeps, deleteCalls,
                   result>>
    /\ UNCHANGED hvars
    /\ UNCHANGED cvars
    /\ UNCHANGED avars

\* forwarder/app.py handle_signal
HandleSignal ==
    /\ ~shutdown
    /\ shutdown' = TRUE
    /\ UNCHANGED <<config, target, queue, ackRequests, current_message, current_receipt_handle,
                   pc, message, attempt, backoff, posts, sleeps, deleteCalls,
                   result>>
    /\ UNCHANGED hvars
    /\ UNCHANGED cvars
    /\ UNCHANGED avars

ForwarderNext ==
    \/ PollReceive
    \/ IdleSleep
    \/ ErrorSleep
    \/ ForwardAttempt
    \/ BackoffSleep
    \/ ForwardExhausted
    \/ ProcessDelete
    \/ Stop
    \/ HandleSignal

\* The steps of run(): each is an await that returns, or code between two
\* awaits, of the one coroutine the event loop runs.
RunStep ==
    \/ PollReceive
    \/ IdleSleep
    \/ ErrorSleep
    \/ ForwardAttempt
    \/ BackoffSleep
    \/ ForwardExhausted
    \/ ProcessDelete
    \/ Stop

\* run() and process_message on any QueueClient
ProcessNext ==
    \/ PollReceive
    \/ IdleSleep
    \/ ErrorSleep
    \/ ForwardAttempt
    \/ BackoffSleep
    \/ ForwardExhausted
    \/ ProcessDeleteInterface
    \/ Stop
    \/ HandleSignal

\* ------------------------------------------- the queue clients, called directly
\* The ids a caller passes to delete_message: those of the envelopes, and one
\* no message has.
DeleteIds == {"uuid-101", "uuid-102", "uuid-999"}

\* A caller awaits receive_message()
ClientReceive ==
    /\ IF ReceiveRaises
       THEN /\ lastReceive' = [backend |-> "none", outcome |-> "raised", slept |-> 0]
            /\ lastReceive' # lastReceive
            /\ UNCHANGED <<queue, current_receipt_handle, message, receipts>>
       ELSE \E resp \in BackendResponses :
            LET m == ReceiveMessage(resp) IN
            /\ resp.kind = "message"
            /\ queue' = [queue EXCEPT ![resp.slot].deliveries = @ + 1]
            /\ current_receipt_handle' =
                  IF m # NoMessage /\ config.queue_type = "aws_sqs"
                  THEN resp.handle ELSE current_receipt_handle
            /\ lastReceive' = [backend |-> resp.kind,
                               outcome |-> IF m = NoMessage THEN "None" ELSE "message",
                               slept |-> 0]
            /\ message' = IF m = NoMessage THEN message ELSE m
            /\ receipts' = IF m = NoMessage THEN receipts
                           ELSE receipts \cup
                                {[slot |-> resp.slot, k |-> queue[resp.slot].deliveries + 1,
                                  id |-> m.id, attempts |-> m.attempts, handle |-> m.handle]}
    /\ UNCHANGED <<config, target, ackRequests, current_message, shutdown, pc, attempt,
                   backoff, posts, sleeps, deleteCalls, result, processCalls,
                   sleepsAfterShutdown>>
    /\ UNCHANGED cvars
    /\ UNCHANGED avars

\* A caller does what the unit tests of delete_message do after a receive:
\* setattr(client, "_current_message", message)
SetCurrentMessage ==
    /\ message # NoMessage
    /\ current_message # message
    /\ current_message' = message
    /\ UNCHANGED <<config, target, queue, ackRequests, current_receipt_handle, shutdown, pc,
                   message, attempt, backoff, posts, sleeps, deleteCalls, result>>
    /\ UNCHANGED hvars
    /\ UNCHANGED cvars
    /\ UNCHANGED avars

\* A caller awaits delete_message(id); deleteCalls holds that one call
ClientDelete ==
    /\ \E id \in DeleteIds, ackFails \in BOOLEAN :
          LET d == DeleteMessage(id, ackFails) IN
          /\ deleteCalls' = <<DeleteCall(id, d, ackFails)>>
          /\ deleteCalls' # deleteCalls
          /\ BackendAfterDelete(d)
    /\ UNCHANGED <<config, target, current_message, current_receipt_handle, shutdown, pc,
                   message, attempt, backoff, posts, sleeps, result>>
    /\ UNCHANGED hvars
    /\ UNCHANGED cvars
    /\ UNCHANGED avars

ClientNext ==
    \/ ClientReceive
    \/ SetCurrentMessage
    \/ ClientDelete

\* ------------------------------------------------------------ the Collector
\* CollectorConfig.webhook_sources: the sources of the test configuration, a
\* source with a secret and no signature_header, and one with a
\* signature_header and no secret (WebhookSourceConfig validates neither).
WebhookSources ==
    {[name |-> "github", secret |-> "test-secret", signature_header |-> "X-Hub-Signature-256"],
     [name |-> "gitlab", secret |-> "test-secret", signature_header |-> "X-Gitlab-Token"],
     [name |-> "custom", secret |-> None, signature_header |-> None],
     [name |-> "legacy", secret |-> "test-secret", signature_header |-> None],
     [name |-> "open", secret |-> None, signature_header |-> "X-Gitlab-Token"]}

RawBodies == {"{a:1}", "{b:2}", "[1]", "not json"}

\* json.loads(body) in receive_webhook
JsonLoadsBody(raw) ==
    CASE raw = "{a:1}" -> [type |-> "object", repr |-> "{a:1}"]
      [] raw = "{b:2}" -> [type |-> "object", repr |-> "{b:2}"]
      [] raw = "[1]" -> [type |-> "array", repr |-> "[1]"]
      [] OTHER -> JSONDecodeError

\* hmac.new(secret.encode(), body, hashlib.sha256).hexdigest(): a different
\* key or a different body gives a different digest.
HexDigest(secret, body) == "hmac(" \o secret \o "," \o body \o ")"

\* f"sha256={digest}"
CalculatedSignature(secret, body) == "sha256=" \o HexDigest(secret, body)

\* A header value with a character outside ASCII (Starlette decodes header
\* bytes as latin-1).
NonAsciiValue == "sha256=\\xe9"
IsAscii(str) == str # NonAsciiValue

\* hmac.compare_digest(a, b) on two str: TypeError unless both are ASCII
CompareDigest(a, b) ==
    IF ~IsAscii(a) \/ ~IsAscii(b) THEN "TypeError"
    ELSE IF a = b THEN "equal" ELSE "differ"

SignatureValues ==
    {CalculatedSignature(k, b) : k \in {"test-secret", "wrong-secret"}, b \in {"{a:1}", "not json"}}
    \cup {"", NonAsciiValue, HexDigest("test-secret", "{a:1}")}

\* request.headers of the requests the model sends: no signature header, or
\* one of the two configured signature headers (names lower-cased, as
\* Starlette keeps them).
RequestHeaders ==
    {EmptyDict} \cup {[n \in {name} |-> v] :
                        name \in {"x-hub-signature-256", "x-gitlab-token"},
                        v \in SignatureValues}

Requests ==
    [source : {src.name : src \in WebhookSources} \cup {"unknown"},
     headers : RequestHeaders,
     body : RawBodies]

\* request.headers.get(name): case-insensitive, None when absent
HeadersGet(headers, name) ==
    IF Lower(name) \in DOMAIN headers THEN headers[Lower(name)] ELSE None

Times == {0, 1}

\* An HTTP response of the Collector
Response(status, detail, message_id) ==
    [status |-> status, detail |-> detail, message_id |-> message_id]

\* Mutant of SkipsVerification: skipped only when neither is configured
SkipsVerificationBothMissing(src) == ~Truthy(src.secret) /\ ~Truthy(src.signature_header)

\* validate_webhook_signature:
\* `if not webhook_source.secret or not webhook_source.signature_header`
SkipsVerification(src) == ~Truthy(src.secret) \/ ~Truthy(src.signature_header)

\* validate_webhook_signature: None when it returns True, else the response
\* its HTTPException makes, or the 500 an exception of compare_digest makes.
ValidateWebhookSignature(req) ==
    IF ~(\E src \in WebhookSources : src.name = req.source)
    THEN Response(404, "Unknown webhook source", None)
    ELSE LET webhook_source == CHOOSE src \in WebhookSources : src.name = req.source IN
         IF SkipsVerification(webhook_source)
         THEN NoResponse
         ELSE LET expected_signature == HeadersGet(req.headers, webhook_source.signature_header)
                  calculated_signature == CalculatedSignature(webhook_source.secret, req.body)
                  cmp == CompareDigest(calculated_signature, expected_signature)
              IN IF ~Truthy(expected_signature)
                 THEN Response(400, "Missing signature header", None)
                 ELSE IF cmp = "TypeError"
                 THEN Response(500, "TypeError", None)
                 ELSE IF cmp = "differ"
                 THEN Response(401, "Invalid signature", None)
                 ELSE NoResponse

\* send_message(payload) of the client `queue_type`, the n-th uuid4() call, at
\* time t: the id it generated, what it serialized, whether the backend got a
\* publish, what it returned (None when it raised) and what it raised.
\* publishFails: the backend refuses the publish.
SendMessage(queue_type, payload, n, t, publishFails) ==
    LET message_id == Uuid(n)
        queue_message == QueueMessage(message_id, payload, t)
        data == JsonDumps(ModelDump(queue_message))
    IN IF data = TypeError
       THEN [payload |-> payload, message_id |-> message_id, data |-> data,
             published |-> FALSE, returned |-> None, raised |-> "TypeError"]
       ELSE IF publishFails
       THEN [payload |-> payload, message_id |-> message_id, data |-> data,
             published |-> FALSE, returned |-> None, raised |-> "PublishError"]
       ELSE [payload |-> payload, message_id |-> message_id, data |-> data,
             published |-> TRUE,
             returned |-> IF queue_type = "aws_sqs"
                          THEN SqsMessageId(publishCount + 1) ELSE message_id,
             raised |-> None]

\* Mutant of ReachesSend: the payload is sent whatever verification said
ReachesSendUnverified(v, content) ==
    content # JSONDecodeError /\ content.type = "object"

\* receive_webhook: the statements before send_message all completed:
\* verification raised nothing, json.loads parsed the body, WebhookPayload
\* accepted the content (a Dict[str, Any])
ReachesSend(v, content) ==
    v = NoResponse /\ content # JSONDecodeError /\ content.type = "object"

\* Mutant of SendCalls: a failed send_message is tried once more
SendCallsRetried(sent) == IF sent.raised # None THEN <<sent, sent>> ELSE <<sent>>

\* receive_webhook: the one `await queue_client.send_message(payload)`
SendCalls(sent) == <<sent>>

\* receive_webhook: the response, and the send_message calls made.
ReceiveWebhook(req, t, publishFails) ==
    LET v == ValidateWebhookSignature(req)
        content == JsonLoadsBody(req.body)
        metadata == WebhookMetadata(req.source, t,
                                    HeadersGet(req.headers, "X-Hub-Signature-256"),
                                    req.headers)
        payload == WebhookPayload(metadata, content)
        sent == SendMessage(collector_queue_type, payload, uuidCount + 1, t, publishFails)
        sends == IF ReachesSend(v, content) THEN SendCalls(sent) ELSE <<>>
    IN IF v # NoResponse THEN [response |-> v, sends |-> sends]
       ELSE IF content = JSONDecodeError
       THEN [response |-> Response(400, "Invalid JSON payload", None), sends |-> sends]
       \* WebhookPayload.content is Dict[str, Any]: pydantic refuses anything else
       ELSE IF content.type # "object"
       THEN [response |-> Response(500, "ValidationError", None), sends |-> sends]
       ELSE IF sent.raised # None
       THEN [response |-> Response(500, "Failed to queue webhook", None), sends |-> sends]
       ELSE [response |-> Response(202, "accepted", sent.returned), sends |-> sends]

\* POST /webhooks/{source}
HandleRequest ==
    /\ handled < MaxRequests
    /\ \E req \in Requests, t \in Times, publishFails \in BOOLEAN :
          LET r == ReceiveWebhook(req, t, publishFails) IN
          /\ request' = req
          /\ response' = r.response
          /\ sendLog' = r.sends
          /\ uuidCount' = uuidCount + Len(r.sends)
          /\ IF r.sends # <<>> /\ r.sends[1].published
             THEN /\ publishCount' = publishCount + 1
                  /\ queue' = [i \in DOMAIN queue \cup {10 + publishCount} |->
                                 IF i \in DOMAIN queue THEN queue[i]
                                 ELSE [body |-> r.sends[1].data, acked |-> FALSE,
                                       deliveries |-> 0]]
             ELSE UNCHANGED <<publishCount, queue>>
          /\ messageIds' = IF r.response.status = 202
                           THEN Append(messageIds, r.response.message_id)
                           ELSE messageIds
    /\ handled' = handled + 1
    /\ UNCHANGED <<collector_queue_type, config, target, ackRequests, current_message,
                   current_receipt_handle, shutdown, pc, message, attempt, backoff,
                   posts, sleeps, deleteCalls, result, hvars, original, reconstructed,
                   inflight>>
    /\ UNCHANGED avars

CollectorNext == HandleRequest

\* ------------------------------------------- the Collector, concurrently
\* receive_webhook is a coroutine: the event loop switches between requests
\* where a coroutine suspends. It can suspend in `await request.body()` of
\* validate_webhook_signature, while the body is still arriving; the second
\* `await request.body()` returns the cached body, and send_message contains
\* no await, so everything from JSON parsing to the response runs in one
\* piece.

\* The requests the concurrent Collector is run on: signed requests to github
\* with the right and with a wrong signature, and unsigned ones to custom.
ConcurrentRequests ==
    {r \in Requests :
        \/ /\ r.source = "github"
           /\ r.headers \in {[n \in {"x-hub-signature-256"} |->
                                CalculatedSignature(k, r.body)] :
                                  k \in {"test-secret", "wrong-secret"}}
           /\ r.body \in {"{a:1}", "not json"}
        \/ /\ r.source = "custom"
           /\ r.headers = EmptyDict}

\* A request arrives on connection k and its coroutine is started
Accept(k) ==
    /\ inflight[k].pc = "idle"
    /\ \E req \in ConcurrentRequests :
          inflight' = [inflight EXCEPT ![k] = [@ EXCEPT !.pc = "validate", !.req = req]]
    /\ UNCHANGED <<collector_queue_type, handled, request, response, sendLog, uuidCount,
                   publishCount, messageIds, original, reconstructed>>
    /\ UNCHANGED fvars
    /\ UNCHANGED avars

\* receive_webhook: `await validate_webhook_signature(request, source, config)`
Validate(k) ==
    /\ inflight[k].pc = "validate"
    /\ LET v == ValidateWebhookSignature(inflight[k].req) IN
       IF v # NoResponse
       THEN /\ inflight' = [inflight EXCEPT ![k] = [@ EXCEPT !.pc = "done", !.response = v]]
            /\ handled' = handled + 1
       ELSE /\ inflight' = [inflight EXCEPT ![k] = [@ EXCEPT !.pc = "parse"]]
            /\ handled' = handled
    /\ UNCHANGED <<collector_queue_type, request, response, sendLog, uuidCount,
                   publishCount, messageIds, original, reconstructed>>
    /\ UNCHANGED fvars
    /\ UNCHANGED avars

\* receive_webhook from `body = await request.body()` to its response
Enqueue(k) ==
    /\ inflight[k].pc = "parse"
    /\ \E t \in Times, publishFails \in BOOLEAN :
          LET r == ReceiveWebhook(inflight[k].req, t, publishFails) IN
          /\ inflight' = [inflight EXCEPT ![k] = [@ EXCEPT !.pc = "done",
                                                          !.response = r.response,
                                                          !.sends = r.sends]]
          /\ sendLog' = sendLog \o r.sends
          /\ uuidCount' = uuidCount + Len(r.sends)
          /\ IF r.sends # <<>> /\ r.sends[1].published
             THEN /\ publishCount' = publishCount + 1
                  /\ queue' = [i \in DOMAIN queue \cup {10 + publishCount} |->
                                 IF i \in DOMAIN queue THEN queue[i]
                                 ELSE [body |-> r.sends[1].data, acked |-> FALSE,
                                       deliveries |-> 0]]
             ELSE UNCHANGED <<publishCount, queue>>
          /\ messageIds' = IF r.response.status = 202
                           THEN Append(messageIds, r.response.message_id)
                           ELSE messageIds
    /\ handled' = handled + 1
    /\ UNCHANGED <<collector_queue_type, request, response, original, reconstructed,
                   config, target, ackRequests, current_message,
                   current_receipt_handle, shutdown, pc, message, attempt, backoff,
                   posts, sleeps, deleteCalls, result, hvars>>
    /\ UNCHANGED avars

ConcurrentNext ==
    \E k \in Connections :
        \/ Accept(k)
        \/ Validate(k)
        \/ Enqueue(k)

\* ------------------------------------------------- the envelope on the wire
\* The QueueMessage objects the round trip is tried on
QueueMessages ==
    {[QueueMessage(id, WebhookPayload(WebhookMetadata(src.source, t, src.signature,
                                                      EmptyDict),
                                      JsonLoadsBody(raw)), t)
        EXCEPT !.attempts = a] :
        id \in {Uuid(1), Uuid(2)},
        src \in {[source |-> "github", signature |-> "sha256=hmac(test-secret,{a:1})"],
                 [source |-> "custom", signature |-> None]},
        raw \in {"{a:1}", "{b:2}"},
        t \in Times,
        a \in 0..MaxAttempts}

\* QueueMessage.model_dump_json(): pydantic's JSON mode, datetime fields become
\* ISO-8601 strings
ModelDumpJson(m) ==
    [kind |-> "json",
     value |-> [id |-> m.id,
                payload |-> [metadata |-> [source |-> m.payload.metadata.source,
                                           received_at |-> IsoString(m.payload.metadata.received_at.t),
                                           signature |-> m.payload.metadata.signature,
                                           headers |-> m.payload.metadata.headers],
                             content |-> m.payload.content],
                created_at |-> IsoString(m.created_at.t),
                attempts |-> m.attempts]]

\* The two ways the repository serializes a QueueMessage: send_message does
\* json.dumps(queue_message.model_dump()), the unit tests of the models do
\* model_dump_json()
Serializers == {"send_message", "model_dump_json"}

Serialize(via, m) ==
    IF via = "send_message" THEN JsonDumps(ModelDump(m)) ELSE ModelDumpJson(m)

\* receive_message: json.loads and QueueMessage.model_validate on the text
ParseWire(text) ==
    IF text = TypeError THEN TypeError
    ELSE LET data == JsonLoads(text) IN
         IF data = JSONDecodeError THEN JSONDecodeError ELSE ModelValidate(data)

\* Serialize `original`, parse the text back
RoundTrip ==
    /\ reconstructed = NoMessage
    /\ \E via \in Serializers :
          reconstructed' = [via |-> via, value |-> ParseWire(Serialize(via, original))]
    /\ UNCHANGED <<collector_queue_type, handled, request, response, sendLog, uuidCount,
                   publishCount, messageIds, original, inflight>>
    /\ UNCHANGED fvars
    /\ UNCHANGED avars

\* ------------------------------------------- the Forwarder application
\* The value of a module global that was never assigned: None
Unset == [kind |-> "None"]

RuntimeError == [kind |-> "RuntimeError"]

\* The QueueClient the n-th setup_app call created
Client(queue_type, n) == [kind |-> "QueueClient", queue_type |-> queue_type, n |-> n]

\* get_app_config(): `if not _app_config: raise RuntimeError(...)`
GetAppConfig == IF app_config = Unset THEN RuntimeError ELSE app_config

\* get_queue_client(): `if not _queue_client: raise RuntimeError(...)`
GetQueueClient == IF queue_client = Unset THEN RuntimeError ELSE queue_client

\* The module when it has been imported and setup_app was never called
AppStart ==
    /\ app_config = Unset
    /\ queue_client = Unset
    /\ completed = Unset
    /\ setups = 0
    /\ accessed = Unset

\* The module after serve() called setup_app(config) and it returned
AppSetUp ==
    /\ app_config = config
    /\ queue_client = Client(config.queue_type, 1)
    /\ completed = [config |-> config, client |-> Client(config.queue_type, 1)]
    /\ setups = 1
    /\ accessed = Unset

\* setup_app(cfg). queueConfigured: the gcp_config / aws_config of the
\* selected queue type is given, so validate_queue_config passes;
\* clientCreated: create_queue_client returns (the client's constructor does
\* not raise); urlParses: urlparse(target_url) in WebhookForwarder.__init__
\* does not raise (it raises ValueError for 'http://[::1').
SetupApp ==
    /\ setups < MaxSetups
    /\ setups' = setups + 1
    /\ \E cfg \in Configs, queueConfigured, clientCreated, urlParses \in BOOLEAN :
          IF ~queueConfigured \/ ~clientCreated
          THEN UNCHANGED <<app_config, queue_client, completed>>
          ELSE /\ queue_client' = Client(cfg.queue_type, setups + 1)
               /\ IF urlParses
                  THEN /\ app_config' = cfg
                       /\ completed' = [config |-> cfg,
                                        client |-> Client(cfg.queue_type, setups + 1)]
                  ELSE UNCHANGED <<app_config, completed>>
    /\ UNCHANGED accessed
    /\ UNCHANGED fvars
    /\ UNCHANGED cvars

\* A caller asks for the config and the queue client
CallAccessors ==
    /\ accessed' = [config |-> GetAppConfig, client |-> GetQueueClient]
    /\ UNCHANGED <<app_config, queue_client, completed, setups>>
    /\ UNCHANGED fvars
    /\ UNCHANGED cvars

AppNext ==
    \/ SetupApp
    \/ CallAccessors

\* -------------------------------------------------------- specifications
\* The Forwarder alone, against a queue some producer filled.
ForwarderInit ==
    /\ ForwarderStart
    /\ CollectorStart
    /\ AppSetUp
    /\ collector_queue_type = config.queue_type

ForwarderSpec == ForwarderInit /\ [][ForwarderNext]_vars

\* The Collector alone.
CollectorInit ==
    /\ ForwarderStart
    /\ CollectorStart
    /\ AppSetUp
    /\ config = [queue_type |-> collector_queue_type, subscription_id |-> TRUE,
                 retry_attempts |-> MaxRetryAttempts, retry_delay |-> 1]
    /\ queue = EmptyDict
    /\ target = {200}

CollectorSpec == CollectorInit /\ [][CollectorNext]_vars

\* The Collector with several requests in flight.
ConcurrentSpec == CollectorInit /\ [][ConcurrentNext]_vars

\* The Forwarder when every receive_message, POST, delete_message and sleep
\* returns: run() always takes its next step.
\* Termination does not depend on how long a sleep is or on which failure a
\* POST ends in: one base delay, a target that always fails and one that
\* answers or raises.
ForwarderLiveInit ==
    /\ ForwarderInit
    /\ config.retry_delay = 1
    /\ target \in {{500}, {200, TransportError}}

ForwarderLiveSpec == ForwarderLiveInit /\ [][ForwarderNext]_vars /\ WF_vars(RunStep)

\* process_message and run() against the QueueClient interface.
ProcessSpec == ForwarderInit /\ [][ProcessNext]_vars

\* The two queue clients, called by any caller in any order (no delivery is
\* made: the retry settings and the target play no part).
ClientInit ==
    /\ ForwarderInit
    /\ config.retry_attempts = 0
    /\ config.retry_delay = 1
    /\ target = {200}

ClientSpec == ClientInit /\ [][ClientNext]_vars

\* A QueueMessage serialized and parsed back.
RoundTripInit ==
    /\ ForwarderStart
    /\ AppSetUp
    /\ config = [queue_type |-> "gcp_pubsub", subscription_id |-> TRUE,
                 retry_attempts |-> MaxRetryAttempts, retry_delay |-> 1]
    /\ queue = EmptyDict
    /\ target = {200}
    /\ collector_queue_type = "gcp_pubsub"
    /\ handled = 0
    /\ request = NoRequest
    /\ response = NoResponse
    /\ sendLog = <<>>
    /\ uuidCount = 0
    /\ publishCount = 0
    /\ messageIds = <<>>
    /\ original \in QueueMessages
    /\ reconstructed = NoMessage
    /\ inflight = [k \in Connections |-> Idle]

RoundTripSpec == RoundTripInit /\ [][RoundTrip]_vars

\* Both processes on one queue.
\* The Forwarder's module before and through setup_app.
AppInit ==
    /\ ForwarderStart
    /\ CollectorStart
    /\ config = [queue_type |-> collector_queue_type, subscription_id |-> TRUE,
                 retry_attempts |-> MaxRetryAttempts, retry_delay |-> 1]
    /\ queue = EmptyDict
    /\ target = {200}
    /\ AppStart

AppSpec == AppInit /\ [][AppNext]_vars

Init == ForwarderStart /\ CollectorStart /\ AppSetUp

Next == ForwarderNext \/ CollectorNext

Spec == Init /\ [][Next]_vars

\* ------------------------------------------------------------- properties
\* One of the POSTs made for `message` was answered with a status < 400.
HadSuccess ==
    \E i \in 1..Len(posts) : posts[i].outcome # TransportError /\ posts[i].outcome < 400

\* The slots of the queue that hold the envelope with this id.
SlotsOf(id) ==
    {i \in DOMAIN queue : /\ queue[i].body.kind = "json"
                          /\ DOMAIN queue[i].body.value = EnvelopeFields
                          /\ queue[i].body.value.id = id}

\* C1: delete_message is called only for a message one of whose POSTs was
\* answered with a status < 400, and with that message's id; a message whose
\* POSTs all failed (status >= 400 or a transport exception) is never deleted
\* and stays in the queue, un-acknowledged, for redelivery.
C1_DeleteOnlyAfterSuccess ==
    /\ deleteCalls # <<>> =>
          /\ HadSuccess
          /\ \A i \in 1..Len(deleteCalls) : deleteCalls[i].id = message.id
    /\ (message # NoMessage /\ ~HadSuccess) =>
          /\ deleteCalls = <<>>
          /\ SlotsOf(message.id) # {}
          /\ \A i \in SlotsOf(message.id) : ~queue[i].acked

\* C1 witness: a message given up after failed POSTs only, never deleted
C1_Witness ==
    /\ result = "false"
    /\ Len(posts) >= 2
    /\ ~HadSuccess
    /\ deleteCalls = <<>>

\* C2: with retry_attempts = N >= 1 and a target that answers every POST with
\* 500, one message is POSTed exactly N times (never more, and the loop is
\* over after the N-th), failure is reported and delete_message is never
\* called.
C2_RetryTermination ==
    (/\ message # NoMessage
     /\ config.retry_attempts >= 1
     /\ \A i \in 1..Len(posts) : posts[i].outcome = 500) =>
        /\ Len(posts) <= config.retry_attempts
        /\ deleteCalls = <<>>
        /\ result # "true"
        /\ result = "false" => Len(posts) = config.retry_attempts
        /\ Len(posts) = config.retry_attempts =>
              \/ result = "false"
              \/ pc = "forward" /\ attempt = config.retry_attempts

\* C2 witness: three POSTs answered 500 with retry_attempts = 3, failure reported
C2_Witness ==
    /\ config.retry_attempts = 3
    /\ target = {500}
    /\ result = "false"
    /\ Len(posts) = 3
    /\ \A i \in 1..Len(posts) : posts[i].outcome = 500

\* C3: the backoff sleeps for a message are D, 2D, 4D, ... (D the base
\* delay): one sleep after each failed POST but the last of the N, none after
\* a successful POST, so N-1 sleeps when every attempt failed.
C3_BackoffGrowth ==
    /\ \A i \in 1..Len(sleeps) : sleeps[i] = config.retry_delay * 2^(i - 1)
    /\ message # NoMessage =>
          /\ Len(sleeps) <= Len(posts)
          /\ Len(sleeps) >= Len(posts) - 1
          /\ HadSuccess => Len(sleeps) = Len(posts) - 1
          /\ (config.retry_attempts >= 1 /\ Len(posts) = config.retry_attempts)
                => Len(sleeps) = config.retry_attempts - 1
          /\ (config.retry_attempts >= 1 /\ result = "false" /\ ~HadSuccess)
                => Len(sleeps) = config.retry_attempts - 1

\* C3 witness: four failed attempts with base delay 5 slept 5, 10, 20
C3_Witness ==
    /\ config.retry_attempts = 4
    /\ result = "false"
    /\ Len(posts) = 4
    /\ sleeps = <<5, 10, 20>>

\* C4: after a successful delivery delete_message is called exactly once, with
\* the id of the message just delivered (the id its POSTs carried), and with
\* no other id; it is not called twice.
C4_DeleteOnceWithOwnId ==
    /\ Len(deleteCalls) <= 1
    /\ \A i \in 1..Len(deleteCalls) :
          /\ deleteCalls[i].id = message.id
          /\ \A j \in 1..Len(posts) : posts[j].headers["X-Webhook-Relay-ID"] = deleteCalls[i].id
    /\ (HadSuccess /\ pc # "delete") => Len(deleteCalls) = 1
    /\ result = "true" => Len(deleteCalls) = 1

\* C4 witness: a delivery that succeeded at the second attempt, then one delete
C4_Witness ==
    /\ result = "true"
    /\ Len(posts) = 2
    /\ Len(deleteCalls) = 1
    /\ deleteCalls[1].id = "uuid-101"

\* C5: after receive_message returned m, delete_message(m.id) on the same
\* client issues the acknowledge / delete request with the ack id / receipt
\* handle of that receive and returns true (the backend call not failing).
C5_DeleteAcknowledges ==
    \A i \in 1..Len(deleteCalls) :
        (deleteCalls[i].id = message.id /\ ~deleteCalls[i].backendFailed) =>
            /\ deleteCalls[i].request = message.handle
            /\ deleteCalls[i].returned

\* C7: what send_message returns is the id in the envelope it published, so
\* the message_id of a 202 response is the id of exactly one envelope of the
\* queue.
C7_ReturnedIdIsEnvelopeId ==
    /\ \A i \in 1..Len(sendLog) :
          sendLog[i].raised # "PublishError" => sendLog[i].returned = sendLog[i].message_id
    /\ (response # NoResponse /\ response.status = 202) =>
          Cardinality(SlotsOf(response.message_id)) = 1

\* C8: when the backend accepts publishes, send_message does not raise and
\* publishes one serialized envelope with the fresh id, the payload, a
\* creation timestamp and attempts = 0.
C8_SendPublishes ==
    \A i \in 1..Len(sendLog) :
        sendLog[i].raised # "PublishError" =>
            /\ sendLog[i].raised = None
            /\ sendLog[i].published
            /\ JsonLoads(sendLog[i].data).id = sendLog[i].message_id
            /\ JsonLoads(sendLog[i].data).attempts = 0

\* C10: on a source with a secret (and its signature header), a request whose
\* signature header is 'sha256=' + HMAC_SHA256(secret, raw body) passes
\* verification, and a request with any other value in that header is answered
\* 401 (an empty value may also be answered 400, as a missing header is).
C10_SignatureDecides ==
    \A src \in WebhookSources :
        (/\ request # NoRequest
         /\ request.source = src.name
         /\ Truthy(src.secret)
         /\ Truthy(src.signature_header)
         /\ Lower(src.signature_header) \in DOMAIN request.headers) =>
            LET value == request.headers[Lower(src.signature_header)] IN
            IF value = "sha256=" \o HexDigest(src.secret, request.body)
            THEN response.detail \notin {"Missing signature header", "Invalid signature",
                                         "TypeError"}
            ELSE IF value = "" THEN response.status \in {400, 401}
            ELSE response.status = 401

\* C11: a request to a source without a secret is never answered by signature
\* verification: not 401, not 400 'Missing signature header', whether the
\* signature header is absent, correct or arbitrary.
C11_NoSecretNeverRejected ==
    \A src \in WebhookSources :
        (/\ request # NoRequest
         /\ request.source = src.name
         /\ ~Truthy(src.secret)) =>
            /\ response.status # 401
            /\ response.detail \notin {"Missing signature header", "Invalid signature",
                                       "TypeError"}

\* C11 witness: a source with a signature header and no secret got a request
\* with an arbitrary value in that header, and the request went on to send
C11_Witness ==
    /\ request # NoRequest
    /\ request.source = "open"
    /\ "x-gitlab-token" \in DOMAIN request.headers
    /\ request.headers["x-gitlab-token"] = CalculatedSignature("wrong-secret", "{a:1}")
    /\ Len(sendLog) = 1

\* C12: a request answered with a client error (404, 400, 401) makes no
\* send_message call and leaves the queue as it was.
C12_RejectedNeverEnqueued ==
    [][(handled' # handled /\ response'.status \in {400, 401, 404}) =>
          /\ sendLog' = <<>>
          /\ uuidCount' = uuidCount
          /\ publishCount' = publishCount
          /\ queue' = queue]_vars

\* C12 witness: a correctly signed request with a body that is no JSON was
\* answered 400 and nothing was sent
C12_Witness ==
    /\ request # NoRequest
    /\ request.source = "github"
    /\ request.body = "not json"
    /\ response.status = 400
    /\ response.detail = "Invalid JSON payload"
    /\ sendLog = <<>>

\* C13: a request that passes verification and whose body is valid JSON of any
\* shape makes exactly one send_message call, with the parsed body as content,
\* and is answered 202 unless that call failed.
C13_AnyJsonIsSent ==
    (/\ request # NoRequest
     /\ ValidateWebhookSignature(request) = NoResponse
     /\ JsonLoadsBody(request.body) # JSONDecodeError) =>
        /\ Len(sendLog) = 1
        /\ sendLog[1].payload.content = JsonLoadsBody(request.body)
        /\ response.status = 202 \/ sendLog[1].raised # None

\* C14: when send_message raises, the Collector answers 500 without a
\* message_id, and send_message was called exactly once for the request.
C14_SendFailureIs500 ==
    /\ Len(sendLog) <= 1
    /\ \A i \in 1..Len(sendLog) :
          sendLog[i].raised # None =>
              /\ response.status = 500
              /\ response.message_id = None
              /\ Len(sendLog) = 1

\* C14 witness: a correctly signed request whose one send_message call raised
C14_Witness ==
    /\ request # NoRequest
    /\ request.source = "github"
    /\ Len(sendLog) = 1
    /\ sendLog[1].raised # None
    /\ response.status = 500
    /\ response.detail = "Failed to queue webhook"

\* C15: for a source with a secret and a signature header, the
\* metadata.signature of the payload handed to send_message is the value the
\* request carried in that source's signature header.
C15_SignatureStored ==
    \A src \in WebhookSources :
        (/\ request # NoRequest
         /\ request.source = src.name
         /\ Truthy(src.secret)
         /\ Truthy(src.signature_header)) =>
            \A i \in 1..Len(sendLog) :
                sendLog[i].payload.metadata.signature =
                    HeadersGet(request.headers, src.signature_header)

\* C16: receive_message returns none only when the backend reported no
\* message, and raises when the backend call failed.
C16_ReceiveDistinguishesFailure ==
    /\ lastReceive.backend = "error" => lastReceive.outcome = "raised"
    /\ lastReceive.outcome = "None" => lastReceive.backend = "empty"

\* C17: an exception of receive_message does not end run(): the loop sleeps 5
\* and polls again; a receive that returned none makes it sleep 1 and poll
\* again; run() has returned only with the shutdown flag set.
C17_PollLoopSleeps ==
    /\ pc = "error_sleep" <=> (lastReceive.outcome = "raised" /\ lastReceive.slept = 0)
    /\ pc = "idle_sleep" <=> (lastReceive.outcome = "None" /\ lastReceive.slept = 0)
    /\ (lastReceive.outcome = "raised" /\ pc # "error_sleep") =>
          lastReceive.slept = 5 /\ pc \in {"poll", "stopped"}
    /\ (lastReceive.outcome = "None" /\ pc # "idle_sleep") =>
          lastReceive.slept = 1 /\ pc \in {"poll", "stopped"}
    /\ pc = "stopped" => shutdown

\* C17 witness: receive_message raised, the loop slept 5 and is polling again
C17_Witness ==
    /\ lastReceive.outcome = "raised"
    /\ lastReceive.slept = 5
    /\ pc = "poll"
    /\ ~shutdown

\* C18: the k-th receive_message of a message that was enqueued with
\* attempts = 0 and never deleted returns it with attempts = k.
C18_AttemptsCountReceipts ==
    \A r \in receipts : r.attempts = r.k

\* C19: every receive_message of one enqueued envelope returns the id the
\* envelope was enqueued with, and every POST made for it carries that id in
\* X-Webhook-Relay-ID.
C19_IdStable ==
    /\ \A r1, r2 \in receipts : r1.slot = r2.slot => r1.id = r2.id
    /\ \A r \in receipts : r.id = queue[r.slot].body.value.id
    /\ message # NoMessage =>
          /\ \E r \in receipts : r.handle = message.handle /\ r.id = message.id
          /\ \A j \in 1..Len(posts) : posts[j].headers["X-Webhook-Relay-ID"] = message.id

\* C19 witness: the second receipt of an envelope, POSTed twice
C19_Witness ==
    /\ message # NoMessage
    /\ \E r1, r2 \in receipts :
          /\ r1.slot = r2.slot
          /\ r1.k = 1
          /\ r2.k = 2
          /\ r2.handle = message.handle
    /\ Len(posts) = 2

\* A step in which run() called receive_message
ReceiveStep ==
    \/ Delivered' # Delivered
    \/ pc' \in {"idle_sleep", "error_sleep"} /\ pc' # pc

\* C20: receive_message is called only when no message is in flight: the
\* message received before has been given up or deleted; and process_message
\* is called exactly once for every receipt.
C20_OneInFlight ==
    /\ [](pc \in {"forward", "backoff", "delete"} => message # NoMessage /\ result = "none")
    /\ [](\A r \in receipts : CountOf(processCalls, r.handle) = 1)
    /\ [][ReceiveStep =>
            /\ pc = "poll"
            /\ message # NoMessage => result \in {"true", "false"}]_vars

\* C20 witness: the second message received is in its backoff sleep, the first
\* one was processed once
C20_Witness ==
    /\ Cardinality(receipts) = 2
    /\ pc = "backoff"
    /\ \A r \in receipts : CountOf(processCalls, r.handle) = 1

\* C21: run() returns only from the top of the loop with the flag set, never
\* out of a delivery: when it has returned, the message received last was
\* delivered in full (all attempts and sleeps, or a success and its delete);
\* and with the flag set receive_message is not called again.
C21_CooperativeShutdown ==
    /\ [](pc = "stopped" =>
            /\ shutdown
            /\ message # NoMessage =>
                  /\ result \in {"true", "false"}
                  /\ HadSuccess => Len(deleteCalls) = 1
                  /\ ~HadSuccess =>
                        /\ Len(posts) = config.retry_attempts
                        /\ config.retry_attempts >= 1 =>
                              Len(sleeps) = config.retry_attempts - 1)
    /\ [][shutdown => ~ReceiveStep]_vars
    /\ [][(pc \in {"forward", "backoff", "delete"}) => (pc' # "stopped")]_vars

\* C21 witness: the flag was set before the first backoff sleep of a message,
\* all four attempts and three sleeps were made, then run() returned
C21_Witness ==
    /\ pc = "stopped"
    /\ sleepsAfterShutdown = 3
    /\ result = "false"
    /\ Len(posts) = 4
    /\ Len(sleeps) = 3

\* C22: after the shutdown flag is set at most one more sleep completes before
\* run() returns.
C22_BoundedShutdownLatency ==
    sleepsAfterShutdown <= 1

\* C23: when a delivery succeeded process_message returns True, whether
\* delete_message returned True, returned False or raised.
C23_DeleteOutcomeIgnored ==
    (HadSuccess /\ Len(deleteCalls) = 1) => result = "true"

\* C24 as stated: delete_message(id) for an id that is not the id of the
\* client's checked-out message returns False, does not raise and makes no
\* backend request, on every client.
C24_DeleteUnknownIdEveryClient ==
    \A i \in 1..Len(deleteCalls) :
        deleteCalls[i].checkedOut # deleteCalls[i].id =>
            /\ ~deleteCalls[i].returned
            /\ ~deleteCalls[i].raised
            /\ deleteCalls[i].request = None

\* C24, amended: the same on a client that can receive (a Pub/Sub client with a
\* subscription, an SQS client).
C24_DeleteUnknownId ==
    \A i \in 1..Len(deleteCalls) :
        (/\ deleteCalls[i].checkedOut # deleteCalls[i].id
         /\ ~(config.queue_type = "gcp_pubsub" /\ ~config.subscription_id)) =>
            /\ ~deleteCalls[i].returned
            /\ ~deleteCalls[i].raised
            /\ deleteCalls[i].request = None

\* C24 witness: with uuid-101 checked out, delete_message("uuid-102") returned
\* False and asked the backend for nothing
C24_Witness ==
    /\ Len(deleteCalls) = 1
    /\ deleteCalls[1].checkedOut = "uuid-101"
    /\ deleteCalls[1].id = "uuid-102"
    /\ ~deleteCalls[1].returned
    /\ ~deleteCalls[1].raised
    /\ deleteCalls[1].request = None
    /\ ackRequests = {}

\* C25: when the backend's acknowledge / delete call fails, delete_message
\* raises.
C25_DeleteTransportFailureRaises ==
    \A i \in 1..Len(deleteCalls) :
        deleteCalls[i].backendFailed => deleteCalls[i].raised

\* The headers forward_webhook sets itself
RelayHeaderNames ==
    {"X-Webhook-Relay-Source", "X-Webhook-Relay-ID", "X-Webhook-Relay-Signature"}

\* C26 as stated: every POST carries every configured header with its
\* configured value, and no other header of the same name in another case.
C26_ConfiguredHeadersAllKept ==
    \A j \in 1..Len(posts) : \A h \in DOMAIN ConfiguredHeaders :
        /\ posts[j].headers[h] = ConfiguredHeaders[h]
        /\ \A k \in DOMAIN posts[j].headers : Lower(k) = Lower(h) => k = h

\* C26, amended: the same for every configured header whose name is not one
\* of the three the Forwarder sets itself.
C26_ConfiguredHeadersKept ==
    \A j \in 1..Len(posts) : \A h \in DOMAIN ConfiguredHeaders \ RelayHeaderNames :
        /\ posts[j].headers[h] = ConfiguredHeaders[h]
        /\ \A k \in DOMAIN posts[j].headers : Lower(k) = Lower(h) => k = h

\* C26 witness: an envelope with an inbound "authorization" header was POSTed
\* with the configured Authorization and without the inbound one
C26_Witness ==
    /\ message # NoMessage
    /\ "authorization" \in DOMAIN message.payload.metadata.headers
    /\ Len(posts) >= 1
    /\ posts[1].headers["Authorization"] = "Bearer test-token"
    /\ "authorization" \notin DOMAIN posts[1].headers

\* C27: every POST carries X-Webhook-Relay-Source = metadata.source and
\* X-Webhook-Relay-ID = the message id, also when a configured header or an
\* inbound header has such a name.
C27_RelayHeadersSet ==
    \A j \in 1..Len(posts) :
        /\ posts[j].headers["X-Webhook-Relay-Source"] = message.payload.metadata.source
        /\ posts[j].headers["X-Webhook-Relay-ID"] = message.id

\* C27 witness: a POST for an envelope whose inbound headers hold an
\* x-webhook-relay-id, with X-Webhook-Relay-Source among the configured headers
C27_Witness ==
    /\ message # NoMessage
    /\ "x-webhook-relay-id" \in DOMAIN message.payload.metadata.headers
    /\ "X-Webhook-Relay-Source" \in DOMAIN ConfiguredHeaders
    /\ Len(posts) >= 1
    /\ posts[1].headers["X-Webhook-Relay-Source"] = "github"
    /\ posts[1].headers["X-Webhook-Relay-ID"] = "uuid-101"

\* C28: a POST for an envelope with a signature carries it as
\* X-Webhook-Relay-Signature and has no header of the name of a source's
\* signature header; a POST for an envelope without one has no
\* X-Webhook-Relay-Signature.
C28_SignatureRenamed ==
    \A j \in 1..Len(posts) :
        IF Truthy(message.payload.metadata.signature)
        THEN /\ "X-Webhook-Relay-Signature" \in DOMAIN posts[j].headers
             /\ posts[j].headers["X-Webhook-Relay-Signature"] = message.payload.metadata.signature
             /\ \A k \in DOMAIN posts[j].headers :
                   Lower(k) \notin {Lower(src.signature_header) :
                                      src \in {x \in WebhookSources : Truthy(x.signature_header)}}
        ELSE "X-Webhook-Relay-Signature" \notin DOMAIN posts[j].headers

\* C29: the body of every POST is the JSON text of payload.content alone, and
\* every attempt for a message sends the body and the headers of the first.
C29_BodyIsContent ==
    \A j \in 1..Len(posts) :
        /\ posts[j].body = message.payload.content.repr
        /\ posts[j].body = posts[1].body
        /\ posts[j].headers = posts[1].headers

\* C29 witness: three attempts for one message, the third with the content as
\* body
C29_Witness ==
    /\ Len(posts) = 3
    /\ message.id = "uuid-101"
    /\ posts[3].body = "{a:1}"
    /\ posts[3].headers = posts[1].headers

\* C30: a QueueMessage serialized to the wire format and parsed back has the
\* id, the attempts and the payload content it had.
C30_RoundTrip ==
    reconstructed # NoMessage =>
        LET v == reconstructed.value IN
        /\ DOMAIN v = EnvelopeFields
        /\ v.id = original.id
        /\ v.attempts = original.attempts
        /\ v.payload.content = original.payload.content

\* C31: every request to a source that has a secret is served by a source
\* whose signature_header is set as well, and is handed to send_message only
\* when it carried the signature calculated from that secret and its body.
C31_SecretMeansVerified ==
    \A src \in WebhookSources :
        (/\ request # NoRequest
         /\ request.source = src.name
         /\ Truthy(src.secret)) =>
            /\ Truthy(src.signature_header)
            /\ Len(sendLog) > 0 =>
                  HeadersGet(request.headers, src.signature_header) =
                      CalculatedSignature(src.secret, request.body)

\* The payload receive_webhook builds for a request (received_at aside)
OwnPayload(req, sent) ==
    /\ sent.payload.metadata.source = req.source
    /\ sent.payload.metadata.headers = req.headers
    /\ sent.payload.content = JsonLoadsBody(req.body)

\* The connections whose request passed verification with a JSON object as
\* body and has been answered
Answered ==
    {k \in Connections :
        /\ inflight[k].pc = "done"
        /\ ValidateWebhookSignature(inflight[k].req) = NoResponse
        /\ JsonLoadsBody(inflight[k].req.body) # JSONDecodeError
        /\ JsonLoadsBody(inflight[k].req.body).type = "object"}

\* C32: in every interleaving, each answered request that passed verification
\* made exactly one send_message call, with its own payload; the calls made in
\* all are as many as such requests; and unless the backend refused the
\* publish the response is 202 with the id assigned to that payload.
C32_RequestsIndependent ==
    /\ Len(sendLog) = Cardinality(Answered)
    /\ \A k \in Answered :
          /\ Len(inflight[k].sends) = 1
          /\ OwnPayload(inflight[k].req, inflight[k].sends[1])
          /\ inflight[k].sends[1].raised # "PublishError" =>
                /\ inflight[k].response.status = 202
                /\ inflight[k].response.message_id = inflight[k].sends[1].message_id

\* C33: the POSTs made for one message end with the first whose status is
\* below 400 (a 1xx, 2xx or 3xx) and are never more than retry_attempts; a
\* status >= 400 and a transport exception both lead to the next attempt;
\* forward_webhook returns true (the message goes on to delete_message) exactly
\* when the last POST was such a success, and false exactly after
\* retry_attempts POSTs without one.
C33_FirstSuccessPosition ==
    message # NoMessage =>
        LET n == Len(posts)
            ok(i) == posts[i].outcome # TransportError /\ posts[i].outcome < 400
        IN /\ n <= config.retry_attempts
           /\ \A i \in 1..(n - 1) : ~ok(i)
           /\ pc = "delete" => (n >= 1 /\ ok(n))
           /\ (n >= 1 /\ ok(n)) => (pc = "delete" \/ Len(deleteCalls) = 1)
           /\ (pc = "poll" /\ result = "false" /\ deleteCalls = <<>>) =>
                 (n = config.retry_attempts /\ \A i \in 1..n : ~ok(i))
           /\ (n = config.retry_attempts /\ \A i \in 1..n : ~ok(i)) =>
                 (result = "false" \/ (pc = "forward" /\ attempt = n))

\* C33 witness: two POSTs answered 500, then one answered 100, with
\* retry_attempts = 4: three POSTs and no fourth, forward_webhook returned true
C33_Witness ==
    /\ config.retry_attempts = 4
    /\ Len(posts) = 3
    /\ posts[1].outcome = 500
    /\ posts[2].outcome = 500
    /\ posts[3].outcome = 100
    /\ pc = "delete"

\* C34: the checks are made in the order source, signature, JSON: a request
\* to an unknown source is answered 404; on a source with secret and
\* signature header a request without the header is answered 400 'Missing
\* signature header' and one with another value than the calculated signature
\* 401, whatever the body; 400 'Invalid JSON payload' is answered only to a
\* request that passed or skipped verification, and to every such request
\* whose body is no JSON.
C34_CheckOrder ==
    request # NoRequest =>
        IF \A src \in WebhookSources : src.name # request.source
        THEN response.status = 404
        ELSE \A src \in WebhookSources :
                src.name = request.source =>
                    LET value == HeadersGet(request.headers, src.signature_header)
                        verified == Truthy(src.secret) /\ Truthy(src.signature_header)
                    IN IF verified /\ ~Truthy(value)
                       THEN /\ response.status = 400
                            /\ response.detail = "Missing signature header"
                       ELSE IF verified /\ value # CalculatedSignature(src.secret, request.body)
                       THEN response.status = 401
                       ELSE JsonLoadsBody(request.body) = JSONDecodeError <=>
                                (/\ response.status = 400
                                 /\ response.detail = "Invalid JSON payload")

\* C35: once the shutdown flag is set run() eventually returns, provided its
\* awaits return; the flag is never cleared; and handle_signal leaves it set.
C35_ShutdownLiveness ==
    /\ shutdown ~> (pc = "stopped")
    /\ [][shutdown => shutdown']_vars
    /\ [][HandleSignal => shutdown']_vars

\* C35 witness: the flag was set while a message was being retried; the
\* message was delivered and deleted after one more sleep, and run() returned
C35_Witness ==
    /\ shutdown
    /\ pc = "stopped"
    /\ sleepsAfterShutdown = 1
    /\ Len(posts) = 2
    /\ Len(deleteCalls) = 1

\* C36: no POST carries two headers whose names are equal but for letter
\* case.
C36_NoDuplicateHeaderNames ==
    \A j \in 1..Len(posts) :
        \A k1, k2 \in DOMAIN posts[j].headers :
            Lower(k1) = Lower(k2) => k1 = k2

\* The slots whose body is no QueueMessage: no JSON, or JSON without the
\* fields of the envelope
Unparseable ==
    {i \in DOMAIN queue :
        \/ queue[i].body.kind # "json"
        \/ DOMAIN queue[i].body.value # EnvelopeFields}

\* C37: the poll that is given a message whose body is no QueueMessage ends
\* as an empty poll: run() goes to its one-second sleep, nothing is POSTed,
\* delete_message is not called and the backend gets no acknowledgement; such
\* a message is never returned by receive_message and stays un-acknowledged
\* in the queue, where the backend delivers it again.
C37_UnparseableIsSkipped ==
    /\ [](\A i \in Unparseable :
             /\ ~queue[i].acked
             /\ \A r \in receipts : r.slot # i
             /\ \A d \in 1..queue[i].deliveries : Handle(i, d) \notin ackRequests)
    /\ [][\A i \in Unparseable :
             queue'[i].deliveries = queue[i].deliveries + 1 =>
                 /\ pc' = "idle_sleep"
                 /\ lastReceive'.outcome = "None"
                 /\ UNCHANGED <<message, posts, deleteCalls, ackRequests, receipts>>
                 /\ ~queue'[i].acked]_vars

\* C37 witness: the text message was delivered twice, each time ending in the
\* idle sleep, and is still in the queue; nothing was ever forwarded
C37_Witness ==
    /\ 3 \in DOMAIN queue
    /\ queue[3].deliveries = 2
    /\ ~queue[3].acked
    /\ lastReceive.backend = "message"
    /\ lastReceive.outcome = "None"
    /\ pc = "idle_sleep"
    /\ receipts = {}
    /\ posts = <<>>

\* C38: as long as no setup_app call has returned, get_app_config() and
\* get_queue_client() both raise RuntimeError, also after setup_app calls
\* that failed; once one has returned they return the config it was given
\* and the queue client it created.
C38_SetupAllOrNothing ==
    /\ [](IF completed = Unset
          THEN GetAppConfig = RuntimeError /\ GetQueueClient = RuntimeError
          ELSE GetAppConfig = completed.config /\ GetQueueClient = completed.client)
    /\ [][CallAccessors =>
            IF completed = Unset
            THEN accessed' = [config |-> RuntimeError, client |-> RuntimeError]
            ELSE accessed' = completed]_vars
====
